---- MODULE Spec2Model ----
(***************************************************************************)
(* A model of src/src/mma.js: the decoder of Mathematica's "!boR" format.  *)
(* A byte buffer (Uint8Array) is a sequence of naturals 0..255; the byte   *)
(* at JavaScript index k is element k+1 of the sequence.  A JavaScript     *)
(* string is the sequence of its character codes.  The recursion of        *)
(* Mma.Decode.Any is an explicit stack of activation frames, and every     *)
(* iteration of its while loop is one step.                                *)
(*                                                                         *)
(* Spec is one DecompressDecode, SpecSeq several of them in one process,   *)
(* SpecDirect one direct call of Mma.Decode.Int32, StringEntry or Any, and *)
(* SpecClean the loop by which Mma.Decompress cleans the text it is given. *)
(***************************************************************************)
EXTENDS Integers, Sequences, FiniteSets, TLC

VARIABLES
    Messages,   \* Mma.Messages, the process-wide diagnostic log
    pc,         \* "idle" | "Decompress" | "Decode": where DecompressDecode is
    inflated,   \* the Uint8Array pako.inflate returned to Mma.Decompress
    bits,       \* the Uint8Array handed to Mma.Decode.Any
    stack,      \* the activations of Mma.Decode.Any, the innermost last
    result,     \* how the last DecompressDecode ended, and with what
    calls,      \* the number of DecompressDecode invocations so far
    first,      \* history: the input and the outcome of the first invocation
    compressedString,   \* the text Mma.Decompress is cleaning
    iClean,     \* i of the cleaning loop of Mma.Decompress
    given,      \* history: compressedString as Mma.Decompress was given it
    out         \* a direct call of a function of Mma.Decode, and its return

\* what belongs to the cleaning loop and to the direct calls
aside == <<compressedString, iClean, given, out>>

vars == <<Messages, pc, inflated, bits, stack, result, calls, first, aside>>

(***************************************************************************)
(* Bounds of the model.                                                    *)
(***************************************************************************)
\* the longest sequence of top-level values whose encoding is an input
MaxSeq == 2
\* a frame that already holds this many parts takes no further payload step
MaxPartsLen == 5
\* the number of DecompressDecode invocations of one behaviour of SpecSeq
MaxCalls == 3
\* the longest text given to the cleaning loop of Mma.Decompress
MaxText == 4

(***************************************************************************)
(* Program constants.                                                      *)
(***************************************************************************)
READY == 0
INTEGER_MP == 1
INTEGER_AP == 2
REAL_MP == 3
REAL_AP == 4
SYMBOL == 5
\* STRING in the source; that word is reserved here
STRING_STATE == 6
EXPRESSION == 7
REAL_MATRIX == 8

\* the character codes of the type signatures that case READY switches on
TagIntegerMP == 105
TagIntegerAP == 73
TagRealMP == 114
TagRealAP == 82
TagSymbol == 115
TagString == 83
TagExpression == 102
TagRealMatrix == 101

\* maxParts = Infinity: larger than the length any array reaches
Infinity == 2147483647
chunkSize == 32768
\* "!boR"
HeaderString == <<33, 98, 111, 82>>
\* "List"
ListName == <<76, 105, 115, 116>>

Min(a, b) == IF a < b THEN a ELSE b
Max(a, b) == IF a > b THEN a ELSE b

(***************************************************************************)
(* JavaScript values the constructors' checks compare.                     *)
(***************************************************************************)
Undefined == [type |-> "undefined"]
JSNumber(n) == [type |-> "number", nan |-> FALSE, v |-> n]
NaN == [type |-> "number", nan |-> TRUE, v |-> 0]
\* a string of one character, of code c
JSChar(c) == [type |-> "string", nan |-> FALSE, v |-> c]

\* a === b: same type and same value, and NaN equals nothing, itself included
StrictEquals(a, b) == a.type = b.type /\ ~a.nan /\ ~b.nan /\ a.v = b.v

\* Number(s) of a one-character string: its digit, 0 for white space, else NaN
Number(c) ==
    IF c \in 48..57 THEN JSNumber(c - 48)
    ELSE IF c \in {9, 10, 11, 12, 13, 32, 160} THEN JSNumber(0)
    ELSE NaN

(***************************************************************************)
(* Mma.Util                                                                *)
(***************************************************************************)
\* TypedArray.prototype.slice(start, end): negative indices count from the end
Slice(array, start, end) ==
    LET len == Len(array)
        k == IF start < 0 THEN Max(len + start, 0) ELSE Min(start, len)
        final == IF end < 0 THEN Max(len + end, 0) ELSE Min(end, len)
    IN  IF final > k THEN SubSeq(array, k + 1, final) ELSE <<>>

RECURSIVE U8Chunks(_, _)
U8Chunks(array, i) ==
    IF i >= Len(array) THEN <<>>
    ELSE Slice(array, i, i + chunkSize) \o U8Chunks(array, i + chunkSize)

\* the string whose character codes are the bytes, joined chunk by chunk
U8ArrayToString(array) == U8Chunks(array, 0)

\* String.prototype.substr(start, length): a negative start counts from the
\* end of the string
Substr(string, start, length) ==
    LET size == Len(string)
        from == IF start < 0 THEN Max(size + start, 0) ELSE Min(start, size)
        count == Min(Max(length, 0), size - from)
    IN  IF count > 0 THEN SubSeq(string, from + 1, from + count) ELSE <<>>

\* string.substr(start): all from start on
SubstrFrom(string, start) == Substr(string, start, Len(string))

DeleteCharAt(string, pos) ==
    Substr(string, 0, pos) \o SubstrFrom(string, pos + 1)

(***************************************************************************)
(* The classes of the core types.  A constructor yields the object, or the *)
(* text it hands to Mma.Fail (err # ""); the texts of IntegerAP and RealAP *)
(* are written without the input the source adds at their end.             *)
(***************************************************************************)
Built(obj) == [err |-> "", obj |-> obj]
Failed(text) == [err |-> text, obj |-> Undefined]

IntegerMP(input) == Built([type |-> "IntegerMP", n |-> input])

IntegerAP(input) ==
    IF \E i \in 1..Len(input) : StrictEquals(Number(input[i]), NaN)
    THEN Failed("IntegerAP: invalid input, contains non-digit")
    ELSE IF Len(input) > 1 /\ StrictEquals(JSChar(input[1]), JSNumber(0))
    THEN Failed("IntegerAP: input starts with 0")
    ELSE Built([type |-> "IntegerAP", nstring |-> input])

RealMP(input) == Built([type |-> "RealMP", n |-> input])

RealAP(input) ==
    IF Len(input) > 1 /\ StrictEquals(JSChar(input[1]), JSNumber(0))
    THEN Failed("RealAP: input starts with 0")
    ELSE Built([type |-> "RealAP", nstring |-> input])

Symbol(name) == Built([type |-> "Symbol", name |-> name])

String(str) == Built([type |-> "String", str |-> str])

\* a faulty variant of Expression: the head is not checked
ExpressionUnchecked(head, parts) ==
    Built([type |-> "Expression", head |-> head, parts |-> parts])

\* parts is always an Array here; head is whatever parts[0] was
Expression(head, parts) ==
    IF head.type # "Symbol"
    THEN Failed("Expression: head must be an Mma.Symbol")
    ELSE Built([type |-> "Expression", head |-> head, parts |-> parts])

(***************************************************************************)
(* Mma.Decode: the primitive decoders.                                     *)
(***************************************************************************)
\* a faulty variant of Int32: bytes past the end of the buffer are read as 0
Int32ZeroPadded(b, offset) ==
    IF offset < 0 THEN 0
    ELSE LET At(k) == IF offset + k <= Len(b) THEN b[offset + k] ELSE 0
             hi == IF At(4) >= 128 THEN At(4) - 256 ELSE At(4)
         IN  hi * 16777216 + At(3) * 65536 + At(2) * 256 + At(1)

\* DataView.getInt32(offset, true); a RangeError is caught and gives 0
Int32(b, offset) ==
    IF offset < 0 \/ offset + 4 > Len(b) THEN 0
    ELSE LET b0 == b[offset + 1]
             b1 == b[offset + 2]
             b2 == b[offset + 3]
             b3 == b[offset + 4]
             hi == IF b3 >= 128 THEN b3 - 256 ELSE b3
         IN  hi * 16777216 + b2 * 65536 + b1 * 256 + b0

\* a faulty variant of Float64: the bytes taken most significant first
Float64BigEndian(b, offset) ==
    IF offset < 0 \/ offset + 8 > Len(b) THEN <<0, 0, 0, 0, 0, 0, 0, 0>>
    ELSE [j \in 1..8 |-> b[offset + j]]

\* DataView.getFloat64(offset, true): the binary64 number, written as its
\* eight bytes from the sign and exponent byte down; a RangeError gives 0
Float64(b, offset) ==
    IF offset < 0 \/ offset + 8 > Len(b) THEN <<0, 0, 0, 0, 0, 0, 0, 0>>
    ELSE [j \in 1..8 |-> b[offset + 9 - j]]

\* Mma.Decode.String with all three arguments given
DecodeString(b, offset, length) ==
    U8ArrayToString(Slice(b, offset, offset + length))

\* a faulty variant of StringEntry: the bytes read are those of the text
StringEntryBytesOfText(b, offset) ==
    LET length == Int32(b, offset)
        string == DecodeString(b, offset + 4, length)
    IN  [length |-> length, string |-> string, bytesRead |-> Len(string) + 4]

StringEntry(b, offset) ==
    LET length == Int32(b, offset)
    IN  [length |-> length,
         string |-> DecodeString(b, offset + 4, length),
         bytesRead |-> length + 4]

(***************************************************************************)
(* case REAL_MATRIX of Mma.Decode.Any.                                     *)
(***************************************************************************)
\* the n sizes read by the for loop (none when n <= 0)
MatrixSizes(b, offset, n) ==
    [s \in 1..Max(n, 0) |-> Int32(b, offset + 4 * (s - 1))]

\* how often "for (i = 0; i < sizes[j]; i++)" runs; sizes[j] may be undefined
LoopCount(sizes, j) ==
    IF j < 0 \/ j >= Len(sizes) THEN 0 ELSE Max(sizes[j + 1], 0)

RECURSIVE ParseMatrixAtLevel(_, _, _, _)
RECURSIVE ParseFloats(_, _, _, _)
RECURSIVE ParseSublists(_, _, _, _, _, _)

\* a faulty variant of ParseFloats: a float is taken to be four bytes wide
RECURSIVE ParseFloatsNarrow(_, _, _, _)
ParseFloatsNarrow(b, offset, count, list) ==
    IF count = 0 THEN [list |-> list, offset |-> offset]
    ELSE ParseFloatsNarrow(b, offset + 4, count - 1,
                           Append(list, RealMP(Float64(b, offset)).obj))

\* the loop of level 0: count floats from offset on
ParseFloats(b, offset, count, list) ==
    IF count = 0 THEN [list |-> list, offset |-> offset]
    ELSE ParseFloats(b, offset + 8, count - 1,
                     Append(list, RealMP(Float64(b, offset)).obj))

\* the loop of a level above 0: count lists of the level below
ParseSublists(b, offset, sizes, level, count, list) ==
    IF count = 0 THEN [list |-> list, offset |-> offset]
    ELSE LET p == ParseMatrixAtLevel(b, offset, sizes, level - 1)
         IN  ParseSublists(b, offset + p.bytesRead, sizes, level, count - 1,
                           Append(list, p.expr))

\* a faulty variant of ParseMatrixAtLevel: the sizes are taken innermost first
ParseMatrixSizesReversed(b, offset, sizes, level) ==
    LET r == IF level = 0
             THEN ParseFloats(b, offset, LoopCount(sizes, 0), <<>>)
             ELSE ParseSublists(b, offset, sizes, level,
                                LoopCount(sizes, level), <<>>)
    IN  [expr |-> Expression(Symbol(ListName).obj, r.list).obj,
         bytesRead |-> r.offset - offset]

ParseMatrixAtLevel(b, offset, sizes, level) ==
    LET r == IF level = 0
             THEN ParseFloats(b, offset, LoopCount(sizes, Len(sizes) - 1), <<>>)
             ELSE ParseSublists(b, offset, sizes, level,
                                LoopCount(sizes, Len(sizes) - level - 1), <<>>)
    IN  [expr |-> Expression(Symbol(ListName).obj, r.list).obj,
         bytesRead |-> r.offset - offset]

(***************************************************************************)
(* Mma.Messages and the functions that write to it.                        *)
(***************************************************************************)
\* a faulty variant of Warn: the record is written as information
WarnAsInfo(text) == Append(Messages, <<"I", text>>)

\* Mma.Warn: the log with one more "W" record
Warn(text) == Append(Messages, <<"W", text>>)

NoResult == [kind |-> "none", parts |-> <<>>, bytesRead |-> 0, error |-> ""]

\* history: what the first invocation was given and how it ended
Recorded(res) ==
    IF first = <<>>
    THEN <<[inflated |-> inflated, bits |-> bits, result |-> res]>>
    ELSE first

\* a faulty variant of Fail: the log is started anew with the error
FailClearsLog(text) ==
    LET res == [kind |-> "throw", parts |-> <<>>, bytesRead |-> 0,
                error |-> text]
    IN  /\ Messages' = <<<<"E", <<text>>>>>>
        /\ pc' = "idle"
        /\ stack' = <<>>
        /\ result' = res
        /\ first' = Recorded(res)

\* Mma.Fail: one "E" record, then the throw unwinds every activation
Fail(text) ==
    LET res == [kind |-> "throw", parts |-> <<>>, bytesRead |-> 0,
                error |-> text]
    IN  /\ Messages' = Append(Messages, <<"E", <<text>>>>)
        /\ pc' = "idle"
        /\ stack' = <<>>
        /\ result' = res
        /\ first' = Recorded(res)

(***************************************************************************)
(* Mma.Decode.Any: the activations and the loop.                           *)
(***************************************************************************)
NewFrame(offset, maxParts) ==
    [offset |-> offset, originalOffset |-> offset, state |-> READY,
     parts |-> <<>>, maxParts |-> maxParts]

Top == stack[Len(stack)]

ReplaceTop(f) == [stack EXCEPT ![Len(stack)] = f]

\* a faulty variant of LoopCond: one part too many
LoopCondOneMore(f) == f.offset < Len(bits) /\ Len(f.parts) <= f.maxParts

\* a faulty variant of LoopCond: the loop ends once the log holds an error
LoopCondUntilError(f) ==
    /\ f.offset < Len(bits)
    /\ Len(f.parts) < f.maxParts
    /\ \A j \in 1..Len(Messages) : Messages[j][1] # "E"

\* the condition of the while loop (done is never set)
LoopCond(f) == f.offset < Len(bits) /\ Len(f.parts) < f.maxParts

\* the innermost activation is about to run the case of this state
Running(state) ==
    /\ pc = "Decode"
    /\ Len(stack) > 0
    /\ LoopCond(Top)
    /\ Top.state = state

\* bits[offset]: undefined (written -1) outside the array
ByteAt(b, offset) ==
    IF offset >= 0 /\ offset < Len(b) THEN b[offset + 1] ELSE -1

TypeSignatures ==
    {TagIntegerMP, TagIntegerAP, TagRealMP, TagRealAP, TagSymbol, TagString,
     TagExpression, TagRealMatrix}

\* the state the switch of case READY selects; the default leaves READY
NextState(next_type) ==
    CASE next_type = TagIntegerMP -> INTEGER_MP
      [] next_type = TagIntegerAP -> INTEGER_AP
      [] next_type = TagRealMP -> REAL_MP
      [] next_type = TagRealAP -> REAL_AP
      [] next_type = TagSymbol -> SYMBOL
      [] next_type = TagString -> STRING_STATE
      [] next_type = TagExpression -> EXPRESSION
      [] next_type = TagRealMatrix -> REAL_MATRIX
      [] OTHER -> READY

\* parts.push(new ...(...)), the offset moved on, back to READY; or the
\* constructor failed
Push(c, newOffset) ==
    IF c.err = ""
    THEN /\ stack' = ReplaceTop([Top EXCEPT !.parts = Append(@, c.obj),
                                            !.offset = newOffset,
                                            !.state = READY])
         /\ UNCHANGED <<Messages, pc, result, first>>
    ELSE Fail(c.err)

Ready ==
    /\ Running(READY)
    /\ LET next_type == ByteAt(bits, Top.offset)
       IN  /\ Messages' =
                IF next_type \in TypeSignatures THEN Messages
                ELSE Warn(<<"Decode.Any (READY): byte ", next_type,
                            " at offset ", Top.offset,
                            " is not a known type signature">>)
           /\ stack' = ReplaceTop([Top EXCEPT !.state = NextState(next_type),
                                              !.offset = @ + 1])
    /\ UNCHANGED <<pc, inflated, bits, result, calls, first, aside>>

IntegerMPCase ==
    /\ Running(INTEGER_MP)
    /\ Len(Top.parts) < MaxPartsLen
    /\ Push(IntegerMP(Int32(bits, Top.offset)), Top.offset + 4)
    /\ UNCHANGED <<inflated, bits, calls, aside>>

IntegerAPCase ==
    /\ Running(INTEGER_AP)
    /\ Len(Top.parts) < MaxPartsLen
    /\ LET se == StringEntry(bits, Top.offset)
       IN  Push(IntegerAP(se.string), Top.offset + se.bytesRead)
    /\ UNCHANGED <<inflated, bits, calls, aside>>

RealMPCase ==
    /\ Running(REAL_MP)
    /\ Len(Top.parts) < MaxPartsLen
    /\ Push(RealMP(Float64(bits, Top.offset)), Top.offset + 8)
    /\ UNCHANGED <<inflated, bits, calls, aside>>

RealAPCase ==
    /\ Running(REAL_AP)
    /\ Len(Top.parts) < MaxPartsLen
    /\ LET se == StringEntry(bits, Top.offset)
       IN  Push(RealAP(se.string), Top.offset + se.bytesRead)
    /\ UNCHANGED <<inflated, bits, calls, aside>>

SymbolCase ==
    /\ Running(SYMBOL)
    /\ Len(Top.parts) < MaxPartsLen
    /\ LET se == StringEntry(bits, Top.offset)
       IN  Push(Symbol(se.string), Top.offset + se.bytesRead)
    /\ UNCHANGED <<inflated, bits, calls, aside>>

StringCase ==
    /\ Running(STRING_STATE)
    /\ Len(Top.parts) < MaxPartsLen
    /\ LET se == StringEntry(bits, Top.offset)
       IN  Push(String(se.string), Top.offset + se.bytesRead)
    /\ UNCHANGED <<inflated, bits, calls, aside>>

\* case EXPRESSION up to the recursive call: a new activation
ExpressionCall ==
    /\ Running(EXPRESSION)
    /\ Len(Top.parts) < MaxPartsLen
    /\ LET exprPartCount == Int32(bits, Top.offset)
       IN  stack' = Append(ReplaceTop([Top EXCEPT !.offset = @ + 4]),
                           NewFrame(Top.offset + 4, exprPartCount + 1))
    /\ UNCHANGED <<Messages, pc, inflated, bits, result, calls, first, aside>>

\* what an activation returns
Returned(f) ==
    [parts |-> f.parts, bytesRead |-> f.offset - f.originalOffset]

\* exprDec.parts[0]: undefined when the call returned no part
ExprHead(parts) == IF Len(parts) > 0 THEN parts[1] ELSE Undefined

\* a faulty variant of ExprParts: the head is left among the parts
ExprPartsWithHead(parts) == parts

\* exprDec.parts.slice(1)
ExprParts(parts) == Slice(parts, 1, Len(parts))

\* the recursive call returns, and case EXPRESSION goes on after it
ExpressionReturn ==
    /\ pc = "Decode"
    /\ Len(stack) > 1
    /\ ~LoopCond(Top)
    /\ LET exprDec == Returned(Top)
           caller == stack[Len(stack) - 1]
           c == Expression(ExprHead(exprDec.parts), ExprParts(exprDec.parts))
       IN  IF c.err = ""
           THEN /\ stack' = Append(SubSeq(stack, 1, Len(stack) - 2),
                              [caller EXCEPT
                                 !.offset = @ + exprDec.bytesRead,
                                 !.parts = Append(@, c.obj),
                                 !.state = READY])
                /\ UNCHANGED <<Messages, pc, result, first>>
           ELSE Fail(c.err)
    /\ UNCHANGED <<inflated, bits, calls, aside>>

RealMatrixCase ==
    /\ Running(REAL_MATRIX)
    /\ Len(Top.parts) < MaxPartsLen
    /\ LET n == Int32(bits, Top.offset)
           sizes == MatrixSizes(bits, Top.offset + 4, n)
           offset == Top.offset + 4 + 4 * Len(sizes)
           parsedMatrix == ParseMatrixAtLevel(bits, offset, sizes, n - 1)
       IN  Push(Built(parsedMatrix.expr), offset + parsedMatrix.bytesRead)
    /\ UNCHANGED <<inflated, bits, calls, aside>>

\* the outermost activation returns to DecompressDecode's caller
Return ==
    /\ pc = "Decode"
    /\ Len(stack) = 1
    /\ ~LoopCond(Top)
    /\ LET res == [kind |-> "return", parts |-> Returned(Top).parts,
                   bytesRead |-> Returned(Top).bytesRead, error |-> ""]
       IN  /\ result' = res
           /\ first' = Recorded(res)
    /\ pc' = "idle"
    /\ stack' = <<>>
    /\ UNCHANGED <<Messages, inflated, bits, calls, aside>>

(***************************************************************************)
(* Mma.Decompress and Mma.DecompressDecode.                                *)
(***************************************************************************)
\* a faulty variant of StripHeader: only a header that is right is taken off
StripHeaderIfRight(b) ==
    IF Slice(b, 0, 4) = HeaderString THEN Slice(b, 4, Len(b)) ELSE b

\* bits.slice(4)
StripHeader(b) == Slice(b, 4, Len(b))

\* Mma.Decompress from the header check on, then the call of Decode.Any
\* with offset and maxParts undefined
Decompress ==
    /\ pc = "Decompress"
    /\ LET headerString == U8ArrayToString(Slice(inflated, 0, 4))
       IN  Messages' =
             IF headerString # HeaderString
             THEN Warn(<<"Decompress: unknown header string ", headerString,
                         " (expected !boR)">>)
             ELSE Messages
    /\ bits' = StripHeader(inflated)
    /\ stack' = <<NewFrame(0, Infinity)>>
    /\ pc' = "Decode"
    /\ UNCHANGED <<inflated, result, calls, first, aside>>

\* DecompressDecode is called; cleaning, Base64 and pako.inflate gave b
Begin(b) ==
    /\ pc = "idle"
    /\ inflated' = b
    /\ pc' = "Decompress"
    /\ calls' = calls + 1
    /\ result' = NoResult
    /\ UNCHANGED <<Messages, bits, stack, first, aside>>

(***************************************************************************)
(* The functions of Mma.Decode called directly, as their callers outside   *)
(* this file may call them, with the offset (and maxParts) given.          *)
(***************************************************************************)
CallInt32(b, offset) ==
    /\ pc = "idle"
    /\ bits' = b
    /\ out' = [fn |-> "Int32", offset |-> offset, int |-> Int32(b, offset)]
    /\ calls' = calls + 1
    /\ UNCHANGED <<Messages, pc, inflated, stack, result, first,
                   compressedString, iClean, given>>

CallStringEntry(b, offset) ==
    /\ pc = "idle"
    /\ bits' = b
    /\ out' = [fn |-> "StringEntry", offset |-> offset,
               se |-> StringEntry(b, offset)]
    /\ calls' = calls + 1
    /\ UNCHANGED <<Messages, pc, inflated, stack, result, first,
                   compressedString, iClean, given>>

\* Mma.Decode.Any(b, offset, maxParts): the outermost activation
CallAny(b, offset, maxParts) ==
    /\ pc = "idle"
    /\ bits' = b
    /\ stack' = <<NewFrame(offset, maxParts)>>
    /\ pc' = "Decode"
    /\ out' = [fn |-> "Any", offset |-> offset, maxParts |-> maxParts]
    /\ calls' = calls + 1
    /\ result' = NoResult
    /\ UNCHANGED <<Messages, inflated, first, compressedString, iClean, given>>

(***************************************************************************)
(* Mma.Decompress: the loop that cleans the text, one step an iteration.   *)
(***************************************************************************)
\* "\\", "\n" and "\"", the characters the loop deletes
Offending == {92, 10, 34}

\* a faulty variant of NextIndex: no i-- after a deletion
NextIndexNoRescan(index, deleted) == index + 1

\* i after an iteration: i-- when the character was deleted, then i++
NextIndex(index, deleted) ==
    IF deleted THEN (index - 1) + 1 ELSE index + 1

\* Mma.Decompress is called with a text
CallDecompress(string) ==
    /\ pc = "idle"
    /\ compressedString' = string
    /\ given' = string
    /\ iClean' = 0
    /\ pc' = "Clean"
    /\ calls' = calls + 1
    /\ UNCHANGED <<Messages, inflated, bits, stack, result, first, out>>

\* an iteration at a backslash, a newline or a double quote
CleanDelete ==
    /\ pc = "Clean"
    /\ iClean < Len(compressedString)
    /\ compressedString[iClean + 1] \in Offending
    /\ compressedString' = DeleteCharAt(compressedString, iClean)
    /\ iClean' = NextIndex(iClean, TRUE)
    /\ UNCHANGED <<Messages, pc, inflated, bits, stack, result, calls, first,
                   given, out>>

\* an iteration at any other character
CleanKeep ==
    /\ pc = "Clean"
    /\ iClean < Len(compressedString)
    /\ compressedString[iClean + 1] \notin Offending
    /\ iClean' = NextIndex(iClean, FALSE)
    /\ UNCHANGED <<Messages, pc, inflated, bits, stack, result, calls, first,
                   compressedString, given, out>>

\* the loop is left; what follows (trim, slice, Base64Decode, pako.inflate)
\* gives the array that Begin hands on
CleanDone ==
    /\ pc = "Clean"
    /\ iClean >= Len(compressedString)
    /\ pc' = "Cleaned"
    /\ UNCHANGED <<Messages, inflated, bits, stack, result, calls, first,
                   aside>>

(***************************************************************************)
(* The inputs: what the format's producer writes for a value (a type       *)
(* signature, then the payload the matching case reads), and malformed     *)
(* buffers.                                                                *)
(***************************************************************************)
\* the four bytes, least significant first, of a 32-bit two's-complement v
LE32(v) ==
    LET u == IF v >= 0 THEN v ELSE (v + 2147483647) + 1
        top == IF v >= 0 THEN u \div 16777216 ELSE (u \div 16777216) + 128
    IN  <<u % 256, (u \div 256) % 256, (u \div 65536) % 256, top>>

\* the eight bytes, least significant first, of a binary64 given as Float64
\* writes it
LE64(n) == [j \in 1..8 |-> n[9 - j]]

StringPayload(str) == LE32(Len(str)) \o str

RECURSIVE Encode(_)
RECURSIVE EncodeAll(_)
Encode(v) ==
    CASE v.type = "IntegerMP" -> <<TagIntegerMP>> \o LE32(v.n)
      [] v.type = "IntegerAP" -> <<TagIntegerAP>> \o StringPayload(v.nstring)
      [] v.type = "RealMP" -> <<TagRealMP>> \o LE64(v.n)
      [] v.type = "RealAP" -> <<TagRealAP>> \o StringPayload(v.nstring)
      [] v.type = "Symbol" -> <<TagSymbol>> \o StringPayload(v.name)
      [] v.type = "String" -> <<TagString>> \o StringPayload(v.str)
      [] v.type = "Expression" ->
            <<TagExpression>> \o LE32(Len(v.parts)) \o Encode(v.head)
                \o EncodeAll(v.parts)

EncodeAll(vs) == IF vs = <<>> THEN <<>> ELSE Encode(vs[1]) \o EncodeAll(Tail(vs))

\* binary64 1.0 .. 6.0, as Float64 writes them
Real(k) ==
    CASE k = 1 -> <<63, 240, 0, 0, 0, 0, 0, 0>>
      [] k = 2 -> <<64, 0, 0, 0, 0, 0, 0, 0>>
      [] k = 3 -> <<64, 8, 0, 0, 0, 0, 0, 0>>
      [] k = 4 -> <<64, 16, 0, 0, 0, 0, 0, 0>>
      [] k = 5 -> <<64, 20, 0, 0, 0, 0, 0, 0>>
      [] k = 6 -> <<64, 24, 0, 0, 0, 0, 0, 0>>

SymA == [type |-> "Symbol", name |-> <<97>>]
Int1 == [type |-> "IntegerMP", n |-> 1]
StrB == [type |-> "String", str |-> <<98, 34>>]

\* valid values: one or more of every type, expressions up to depth 3
Vals ==
    << Int1,
       [type |-> "IntegerMP", n |-> -2],
       [type |-> "IntegerAP", nstring |-> <<49, 48>>],
       [type |-> "RealMP", n |-> Real(1)],
       [type |-> "RealAP", nstring |-> <<49, 46, 53>>],
       SymA,
       [type |-> "Symbol", name |-> <<>>],
       StrB,
       [type |-> "Expression", head |-> SymA, parts |-> <<>>],
       [type |-> "Expression", head |-> SymA, parts |-> <<Int1, StrB>>],
       [type |-> "Expression", head |-> SymA, parts |->
           << [type |-> "Expression", head |-> SymA, parts |-> <<SymA>>] >>] >>

\* a sequence of valid values, named by the indices of its values in Vals
IndexSeqs == UNION {[1..k -> 1..Len(Vals)] : k \in 0..MaxSeq}
ValidSeq(ix) == [j \in 1..Len(ix) |-> Vals[ix[j]]]
ValidEncoding == [ix \in IndexSeqs |-> EncodeAll(ValidSeq(ix))]
ValidEncodings == {ValidEncoding[ix] : ix \in IndexSeqs}

\* a real-matrix entry: the signature, n, the n sizes, the floats
MatrixEntry(sizes, count) ==
    LET RECURSIVE Sizes(_)
        Sizes(j) == IF j > Len(sizes) THEN <<>>
                    ELSE LE32(sizes[j]) \o Sizes(j + 1)
        RECURSIVE Floats(_)
        Floats(k) == IF k > count THEN <<>>
                     ELSE LE64(Real(((k - 1) % 6) + 1)) \o Floats(k + 1)
    IN  <<TagRealMatrix>> \o LE32(Len(sizes)) \o Sizes(1) \o Floats(1)

Malformed ==
    { \* an unknown byte, then a well-formed i entry; one between two values
      <<120>> \o Encode(Int1),
      Encode(SymA) \o <<0>> \o Encode(Int1),
      \* I and R entries: a non-digit, leading zeros, a lone zero
      <<TagIntegerAP>> \o StringPayload(<<49, 97>>),
      <<TagIntegerAP>> \o StringPayload(<<48, 48, 55>>),
      <<TagIntegerAP>> \o StringPayload(<<48>>),
      <<TagIntegerAP>> \o StringPayload(<<49, 50, 51>>),
      <<TagRealAP>> \o StringPayload(<<48, 48, 55>>),
      <<TagRealAP>> \o StringPayload(<<48>>),
      \* expressions: a head that is no symbol, part counts -1 and -2, a
      \* head that is an expression, more parts declared than present
      <<TagExpression>> \o LE32(0) \o Encode(Int1),
      <<TagExpression>> \o LE32(-1) \o Encode(SymA),
      <<TagExpression>> \o LE32(-2) \o Encode(SymA),
      <<TagExpression>> \o LE32(0) \o Encode(Vals[9]),
      <<TagExpression>> \o LE32(3) \o Encode(SymA) \o Encode(Int1),
      \* string entries whose length is negative
      <<TagSymbol>> \o LE32(-1),
      <<TagSymbol>> \o LE32(-5),
      <<TagString>> \o LE32(-6) \o <<97, 98>>,
      \* a negative length inside an expression
      <<TagExpression>> \o LE32(1) \o <<TagSymbol>> \o LE32(-7),
      \* real matrices
      MatrixEntry(<<2>>, 2),
      MatrixEntry(<<2, 3>>, 6),
      MatrixEntry(<<1, 2, 2>>, 4),
      MatrixEntry(<<2, 0>>, 0),
      MatrixEntry(<<0, 2>>, 0),
      MatrixEntry(<<-1>>, 0),
      MatrixEntry(<<2>>, 2) \o Encode(Int1),
      <<TagRealMatrix>> \o LE32(0),
      <<TagRealMatrix>> \o LE32(-1) \o Encode(Int1),
      \* a matrix as a part of an expression
      <<TagExpression>> \o LE32(1) \o Encode(SymA) \o MatrixEntry(<<1>>, 1)
    }

Prefixes(b) == {SubSeq(b, 1, k) : k \in 0..Len(b)}

\* every valid encoding and every malformed buffer, cut at every length
Payloads ==
    UNION {Prefixes(ValidEncoding[ix]) : ix \in IndexSeqs}
        \cup UNION {Prefixes(m) : m \in Malformed}

\* "XboR"
BadHeader == <<88, 98, 111, 82>>

\* what pako.inflate may return: a header, right or wrong, and a payload;
\* or less than a header
Inflated ==
    {HeaderString \o p : p \in Payloads}
        \cup {BadHeader \o ValidEncoding[ix] : ix \in {i \in IndexSeqs : Len(i) <= 1}}
        \cup {BadHeader \o m : m \in Malformed}
        \cup {<<>>, <<33, 98>>}

\* the inputs of the behaviours with several invocations: every type, an
\* unknown byte, a head that is no symbol; three of them with a wrong header
SeqPayloads ==
    { Encode(Int1), Encode(Vals[3]), Encode(Vals[4]), Encode(Vals[5]),
      Encode(Vals[10]), MatrixEntry(<<2>>, 2),
      <<120>> \o Encode(Int1),
      <<TagExpression>> \o LE32(0) \o Encode(Int1) }

SeqInflated ==
    {HeaderString \o p : p \in SeqPayloads}
        \cup { BadHeader \o Encode(Int1),
               BadHeader \o Encode(Vals[10]),
               BadHeader \o <<120>> \o Encode(Int1),
               <<33, 98>> }

\* the texts given to Mma.Decompress: up to MaxText characters, each one a
\* backslash, a newline, a double quote or "A"
Texts == UNION {[1..k -> Offending \cup {65}] : k \in 0..MaxText}

\* the values of the length fields of the buffers of the direct calls
LengthValues == {-7, -6, -5, -4, -1, 0, 1, 2, 3, 258}

\* the buffers of the direct calls of Int32 and StringEntry: nothing or a
\* type signature, a length field, up to three bytes of text; four bytes
\* that are the least and a large 32-bit integer; less than four bytes
PrimBuffers ==
    {pre \o LE32(v) \o post :
        pre \in {<<>>, <<TagString>>}, v \in LengthValues,
        post \in {<<>>, <<97>>, <<97, 98>>, <<97, 98, 99>>}}
      \cup {<<0, 0, 0, 128>>, <<1, 2, 3, 4, 5>>, <<200, 1>>, <<>>}

\* the buffers of the direct calls of Any: the malformed ones, an i entry
\* cut at every length, an expression and two values
AnyBuffers ==
    Malformed \cup Prefixes(Encode(Vals[2]))
        \cup {Encode(Vals[10]), Encode(StrB) \o Encode(Vals[4])}

\* maxParts of a direct call of Any
MaxPartsGiven == {0, 1, 2, Infinity}

(***************************************************************************)
(* The specifications.                                                     *)
(***************************************************************************)
\* no function of Mma.Decode has been called directly
NoCall == [fn |-> "none"]

Init ==
    /\ Messages = <<>>
    /\ pc = "idle"
    /\ inflated = <<>>
    /\ bits = <<>>
    /\ stack = <<>>
    /\ result = NoResult
    /\ calls = 0
    /\ first = <<>>
    /\ compressedString = <<>>
    /\ iClean = 0
    /\ given = <<>>
    /\ out = NoCall

\* one invocation of DecompressDecode, on any input
DecompressDecode == calls = 0 /\ \E b \in Inflated : Begin(b)

\* an invocation after any others
DecompressDecodeAgain ==
    calls < MaxCalls /\ pc = "idle" /\ \E b \in SeqInflated : Begin(b)

\* a step of Mma.Decode.Any
DecodeStep ==
    \/ Ready
    \/ IntegerMPCase
    \/ IntegerAPCase
    \/ RealMPCase
    \/ RealAPCase
    \/ SymbolCase
    \/ StringCase
    \/ ExpressionCall
    \/ ExpressionReturn
    \/ RealMatrixCase
    \/ Return

Step == Decompress \/ DecodeStep

Next == DecompressDecode \/ Step

NextSeq == DecompressDecodeAgain \/ Step

Spec == Init /\ [][Next]_vars

SpecSeq == Init /\ [][NextSeq]_vars

\* one direct call of a function of Mma.Decode
DirectInt32 ==
    /\ calls = 0
    /\ \E b \in PrimBuffers : \E offset \in -1..(Len(b) + 1) :
          CallInt32(b, offset)

DirectStringEntry ==
    /\ calls = 0
    /\ \E b \in PrimBuffers : \E offset \in 0..(Len(b) + 1) :
          CallStringEntry(b, offset)

DirectAny ==
    /\ calls = 0
    /\ \E b \in AnyBuffers : \E offset \in 0..Len(b) :
          \E maxParts \in MaxPartsGiven : CallAny(b, offset, maxParts)

NextDirect == DirectInt32 \/ DirectStringEntry \/ DirectAny \/ DecodeStep

SpecDirect == Init /\ [][NextDirect]_vars

\* one call of Mma.Decompress, up to the end of its cleaning loop
DecompressText == calls = 0 /\ \E string \in Texts : CallDecompress(string)

NextClean == DecompressText \/ CleanDelete \/ CleanKeep \/ CleanDone

\* the loop is not suspended: an iteration that can be taken is taken
SpecClean == Init /\ [][NextClean]_vars /\ WF_vars(NextClean)

(***************************************************************************)
(* Properties.                                                             *)
(***************************************************************************)
\* DecompressDecode has ended, by a return or by a throw
Ended == pc = "idle" /\ calls > 0

\* structural identity of two values, and of two sequences of values
RECURSIVE SameValue(_, _)
RECURSIVE SameSeq(_, _)
SameValue(a, b) ==
    /\ a.type = b.type
    /\ CASE a.type \in {"IntegerMP", "RealMP"} -> a.n = b.n
         [] a.type \in {"IntegerAP", "RealAP"} -> a.nstring = b.nstring
         [] a.type = "Symbol" -> a.name = b.name
         [] a.type = "String" -> a.str = b.str
         [] a.type = "Expression" ->
               SameValue(a.head, b.head) /\ SameSeq(a.parts, b.parts)
         [] OTHER -> TRUE

SameSeq(as, bs) ==
    /\ Len(as) = Len(bs)
    /\ \A j \in 1..Len(as) : SameValue(as[j], bs[j])

\* the warnings of Decode.Any in a log
DecodeWarnings(log) ==
    Cardinality({j \in 1..Len(log) :
        log[j][1] = "W" /\ log[j][2][1] = "Decode.Any (READY): byte "})

\* C1: the decode of the concatenated encodings of valid values v1..vk
\* returns exactly v1..vk in stream order, reports the whole buffer as
\* consumed and logs no warning
C1_RoundTrip ==
    Ended /\ bits \in ValidEncodings =>
        \A ix \in IndexSeqs :
            bits = ValidEncoding[ix] =>
                /\ result.kind = "return"
                /\ SameSeq(result.parts, ValidSeq(ix))
                /\ result.bytesRead = Len(bits)
                /\ DecodeWarnings(Messages) = 0

\* C1 witness: two expressions, one of them nested, have been decoded
C1_Witness ==
    /\ Ended
    /\ bits = ValidEncoding[<<11, 10>>]
    /\ result.kind = "return"
    /\ Len(result.parts) = 2

\* a step by which a recursive call returns and the Expression is appended
ExpressionAppended ==
    /\ pc = "Decode"
    /\ Len(stack) > 1
    /\ Len(stack') = Len(stack) - 1
    /\ pc' = "Decode"

\* the Expression such a step appends
Appended == Top'.parts[Len(Top'.parts)]

\* C2 as stated: the appended Expression has the first returned value as
\* head, the rest as parts in order, and exactly partCount parts
C2_ExactlyPartCount ==
    [][ExpressionAppended =>
          /\ SameValue(Appended.head, Top.parts[1])
          /\ SameSeq(Appended.parts, Tail(Top.parts))
          /\ Len(Appended.parts) = Top.maxParts - 1]_vars

\* C2 amended: the appended Expression has the first returned value as head
\* and all other returned values as parts in order; it has partCount parts
\* when the call returned partCount + 1 values, and otherwise the fewer
\* that were decoded before the buffer ended
C2_PartsAsReturned ==
    [][ExpressionAppended =>
          /\ SameValue(Appended.head, Top.parts[1])
          /\ SameSeq(Appended.parts, Tail(Top.parts))
          /\ Len(Appended.parts) <= Top.maxParts - 1
          /\ (Len(Top.parts) = Top.maxParts
                => Len(Appended.parts) = Top.maxParts - 1)
          /\ (Len(Appended.parts) < Top.maxParts - 1
                => Top.offset >= Len(bits))]_vars

\* C2 witness: three parts declared, the buffer ends after the first, and
\* the Expression has that one part
C2_Witness ==
    /\ Ended
    /\ bits = <<TagExpression>> \o LE32(3) \o Encode(SymA) \o Encode(Int1)
    /\ result.kind = "return"
    /\ Len(result.parts) = 1
    /\ Len(result.parts[1].parts) = 1

\* C3: a call with maxParts = m holds at most m values, takes no step of
\* its loop once it holds m, and its caller resumes at the offset the call
\* stopped at, advanced by exactly the bytes the call consumed
C3_StopsAtMaxCount ==
    [][pc = "Decode" /\ Len(stack) > 0 =>
          /\ \A d \in 1..Len(stack') :
                Len(stack'[d].parts) <= Max(stack'[d].maxParts, 0)
          /\ (Len(stack') >= Len(stack) /\ pc' = "Decode"
                => Len(Top.parts) < Top.maxParts)
          /\ ExpressionAppended =>
                /\ Top'.offset = Top.offset
                /\ Top'.offset = stack[Len(stack) - 1].offset
                                   + (Top.offset - Top.originalOffset)]_vars

\* C3 witness: a recursive call holds its maxParts values and stops with
\* bytes of the buffer left
C3_Witness ==
    /\ pc = "Decode"
    /\ Len(stack) > 1
    /\ Len(Top.parts) = Top.maxParts
    /\ Top.maxParts >= 2
    /\ Top.offset < Len(bits)

\* every Expression of a tree has a Symbol as head
RECURSIVE HeadsAreSymbols(_)
HeadsAreSymbols(v) ==
    v.type = "Expression" =>
        /\ v.head.type = "Symbol"
        /\ \A j \in 1..Len(v.parts) : HeadsAreSymbols(v.parts[j])

AllHeadsAreSymbols(vs) == \A j \in 1..Len(vs) : HeadsAreSymbols(vs[j])

\* C4: every Expression decoded so far or returned has a Symbol as head,
\* and when a recursive call returns a first value that is no Symbol, or
\* no value, the decode throws and returns no tree
C4_HeadIsSymbol ==
    [][/\ AllHeadsAreSymbols(result'.parts)
       /\ \A d \in 1..Len(stack') : AllHeadsAreSymbols(stack'[d].parts)
       /\ (/\ pc = "Decode"
           /\ Len(stack) > 1
           /\ Len(stack') < Len(stack)
           /\ (Top.parts = <<>> \/ Top.parts[1].type # "Symbol"))
            => /\ pc' = "idle"
               /\ stack' = <<>>
               /\ result'.kind = "throw"
               /\ result'.parts = <<>>
               /\ Messages' = Append(Messages, <<"E",
                      <<"Expression: head must be an Mma.Symbol">>>>)]_vars

\* C4 witness: the head decoded is an IntegerMP and the decode has thrown
C4_Witness ==
    /\ Ended
    /\ bits = <<TagExpression>> \o LE32(0) \o Encode(Int1)
    /\ result.kind = "throw"
    /\ result.error = "Expression: head must be an Mma.Symbol"

\* every IntegerAP of a tree holds decimal digits only
RECURSIVE IntegerAPsAreDigits(_)
IntegerAPsAreDigits(v) ==
    CASE v.type = "IntegerAP" ->
            \A j \in 1..Len(v.nstring) : v.nstring[j] \in 48..57
      [] v.type = "Expression" ->
            \A j \in 1..Len(v.parts) : IntegerAPsAreDigits(v.parts[j])
      [] OTHER -> TRUE

\* C5 as stated: every IntegerAP of a returned tree holds decimal digits
\* only (an I entry with another character ends the decode with a throw)
C5_DigitsOnly ==
    Ended /\ result.kind = "return" =>
        \A j \in 1..Len(result.parts) : IntegerAPsAreDigits(result.parts[j])

\* the buffer is one I or R entry, whole: its text
IsNumberEntry ==
    /\ Len(bits) >= 5
    /\ bits[1] \in {TagIntegerAP, TagRealAP}
    /\ LE32(Len(bits) - 5) = SubSeq(bits, 2, 5)

EntryText == SubSeq(bits, 6, Len(bits))

\* C6 as stated: an I or R entry whose text is longer than one character
\* and starts with "0" ends the decode with a throw, and the texts "0" and
\* "123" are accepted
C6_LeadingZeroFails ==
    Ended /\ IsNumberEntry =>
        /\ (Len(EntryText) > 1 /\ EntryText[1] = 48 => result.kind = "throw")
        /\ (EntryText \in {<<48>>, <<49, 50, 51>>} => result.kind = "return")

\* C7: an unknown byte read in READY takes one byte, adds one warning to
\* the log and no value, leaves the state READY and the decode running; an
\* unknown byte before a well-formed i entry gives one IntegerMP and one
\* warning
C7_UnknownByteSkipped ==
    [][/\ (/\ pc = "Decode"
           /\ Len(stack) > 0
           /\ Top.state = READY
           /\ Top.offset < Len(bits)
           /\ Len(Top.parts) < Top.maxParts
           /\ (Top.offset < 0 \/ bits[Top.offset + 1] \notin
                 {105, 73, 114, 82, 115, 83, 102, 101}))
            => /\ pc' = "Decode"
               /\ Len(stack') = Len(stack)
               /\ SubSeq(stack', 1, Len(stack) - 1)
                     = SubSeq(stack, 1, Len(stack) - 1)
               /\ Top'.offset = Top.offset + 1
               /\ Top'.parts = Top.parts
               /\ Top'.state = READY
               /\ Len(Messages') = Len(Messages) + 1
               /\ SubSeq(Messages', 1, Len(Messages)) = Messages
               /\ Messages'[Len(Messages')][1] = "W"
       /\ (Ended' /\ bits' = <<120>> \o Encode(Int1))
            => /\ result'.kind = "return"
               /\ SameSeq(result'.parts, <<Int1>>)
               /\ DecodeWarnings(Messages') = 1
               /\ \A j \in 1..Len(Messages') : Messages'[j][1] = "W"]_vars

\* C7 witness: the unknown byte was skipped with a warning and the i entry
\* after it decoded
C7_Witness ==
    /\ Ended
    /\ bits = <<120>> \o Encode(Int1)
    /\ result.kind = "return"
    /\ Len(result.parts) = 1
    /\ DecodeWarnings(Messages) = 1

\* the product of sizes[d+1 .. n]
RECURSIVE Stride(_, _)
Stride(sizes, d) ==
    IF d >= Len(sizes) THEN 1 ELSE sizes[d + 1] * Stride(sizes, d + 1)

\* the k-th float (from 0) of a matrix entry of n dimensions that starts
\* the buffer b
MatrixFloat(b, n, k) ==
    [type |-> "RealMP",
     n |-> [j \in 1..8 |-> b[5 + 4 * n + 8 * k + 9 - j]]]

\* the list at depth d (1 the outermost) whose first float is number base:
\* sizes[d] children, each Stride(sizes, d) floats further on
RECURSIVE NestedList(_, _, _, _)
NestedList(b, sizes, d, base) ==
    [type |-> "Expression",
     head |-> [type |-> "Symbol", name |-> <<76, 105, 115, 116>>],
     parts |-> [i \in 1..sizes[d] |->
                   IF d = Len(sizes)
                   THEN MatrixFloat(b, Len(sizes), base + i - 1)
                   ELSE NestedList(b, sizes, d + 1,
                                   base + (i - 1) * Stride(sizes, d))]]

\* the sizes a buffer that starts with a matrix entry declares
DeclaredSizes(b) ==
    [d \in 1..Int32(b, 1) |-> Int32(b, 1 + 4 * d)]

\* the buffer is one real-matrix entry, whole: n >= 1 dimensions, sizes
\* that are not negative, and as many floats as their product
IsMatrixEntry ==
    /\ Len(bits) >= 9
    /\ bits[1] = TagRealMatrix
    /\ Int32(bits, 1) >= 1
    /\ Len(bits) >= 5 + 4 * Int32(bits, 1)
    /\ \A d \in 1..Int32(bits, 1) : DeclaredSizes(bits)[d] >= 0
    /\ Len(bits) = 5 + 4 * Int32(bits, 1) + 8 * Stride(DeclaredSizes(bits), 0)

\* C8: a real-matrix entry of n >= 1 dimensions decodes to n nested Lists,
\* the list at depth d with sizes[d] children, the floats in row-major
\* stream order
C8_MatrixShape ==
    Ended /\ IsMatrixEntry =>
        /\ result.kind = "return"
        /\ SameSeq(result.parts,
                   <<NestedList(bits, DeclaredSizes(bits), 1, 0)>>)

\* C8 witness: sizes 2, 3 and the floats 1..6 gave two lists, the second
\* one 4, 5, 6
C8_Witness ==
    /\ Ended
    /\ bits = MatrixEntry(<<2, 3>>, 6)
    /\ result.kind = "return"
    /\ Len(result.parts[1].parts) = 2
    /\ Len(result.parts[1].parts[2].parts) = 3
    /\ result.parts[1].parts[2].parts[1].n = Real(4)
    /\ result.parts[1].parts[1].parts[3].n = Real(3)

\* the first four bytes of an inflated buffer, or the fewer it has
HeaderOf(b) == SubSeq(b, 1, Min(4, Len(b)))

\* what follows the first four bytes of an inflated buffer
Payload(b) == SubSeq(b, 5, Len(b))

\* two results with the same values
SameValues(r1, r2) == r1.kind = r2.kind /\ SameSeq(r1.parts, r2.parts)

\* C9: when the first four bytes are not "!boR", Decompress adds exactly one
\* warning to the log, does not abort and hands on the buffer without its
\* first four bytes; the decode then gives the values it gives for the same
\* payload after a correct header
C9_WrongHeaderOnlyWarns ==
    [][/\ (pc = "Decompress" /\ HeaderOf(inflated) # <<33, 98, 111, 82>>)
            => /\ pc' = "Decode"
               /\ bits' = Payload(inflated)
               /\ Len(Messages') = Len(Messages) + 1
               /\ SubSeq(Messages', 1, Len(Messages)) = Messages
               /\ Messages'[Len(Messages')][1] = "W"
               /\ result'.kind = "none"
       /\ (/\ Ended'
           /\ first' # <<>>
           /\ Payload(first'[1].inflated) = Payload(inflated'))
            => SameValues(result', first'[1].result)]_vars

\* C9 witness: an expression decoded after the header "XboR", as it was
\* decoded before after "!boR"
C9_Witness ==
    /\ Ended
    /\ calls >= 2
    /\ first # <<>>
    /\ first[1].inflated = HeaderString \o Encode(Vals[10])
    /\ inflated = BadHeader \o Encode(Vals[10])
    /\ result.kind = "return"
    /\ Len(result.parts) = 1
    /\ Len(Messages) = 1

\* C10: a decode of the buffer the first decode was given ends as the first
\* did: the same values, the same bytesRead, a return or the same throw,
\* whatever the log holds and whatever was decoded in between
C10_Deterministic ==
    (Ended /\ first # <<>> /\ bits = first[1].bits) =>
        /\ result.kind = first[1].result.kind
        /\ SameSeq(result.parts, first[1].result.parts)
        /\ result.bytesRead = first[1].result.bytesRead
        /\ result.error = first[1].result.error

\* C10 witness: the third decode repeats the first, after a decode that
\* threw and with warnings and an error in the log
C10_Witness ==
    /\ Ended
    /\ calls = 3
    /\ first # <<>>
    /\ bits = first[1].bits
    /\ result.kind = "return"
    /\ Len(result.parts) = 1
    /\ DecodeWarnings(Messages) = 2
    /\ \E j \in 1..Len(Messages) : Messages[j][1] = "E"

\* a step by which Mma.Fail ends the decode
Fails == pc = "Decode" /\ result'.kind = "throw"

\* where the type signature of the entry that fails is: right before the
\* payload the innermost activation is at, or, when a recursive call has
\* returned, five bytes before the offset of its caller
FailingOffset ==
    IF LoopCond(Top) THEN Top.offset - 1
    ELSE stack[Len(stack) - 1].offset - 5

\* C11 as stated: the record Mma.Fail writes for a fatal error of the
\* decode holds, with the message, the byte offset and the type signature
\* at which the error occurred
C11_ErrorHasOffsetAndTag ==
    [][Fails =>
          LET record == Messages'[Len(Messages')]
          IN  /\ record[1] = "E"
              /\ Len(record[2]) >= 3
              /\ record[2][2] = FailingOffset
              /\ record[2][3] = ByteAt(bits, FailingOffset)]_vars

\* a character that is no backslash, newline or double quote
IsKept(c) == c \notin {92, 10, 34}

\* C12: the cleaning loop ends, and the text it leaves holds no backslash,
\* newline or double quote and is the text given with exactly those
\* characters removed, the others in their order
C12_Cleaned ==
    /\ [](pc = "Cleaned" =>
            /\ \A j \in 1..Len(compressedString) : IsKept(compressedString[j])
            /\ compressedString = SelectSeq(given, IsKept))
    /\ <>(pc = "Cleaned")

\* C12 witness: offending characters at the start, in a row and at the end
\* have all been removed
C12_Witness ==
    /\ pc = "Cleaned"
    /\ given = <<92, 34, 65, 10>>
    /\ compressedString = <<65>>

\* the 32-bit two's-complement integer whose bytes, the least significant
\* first, are b[offset] .. b[offset + 3]
SignedLE(b, offset) ==
    LET low == b[offset + 1] + 256 * b[offset + 2] + 65536 * b[offset + 3]
                 + 16777216 * (b[offset + 4] % 128)
    IN  IF b[offset + 4] >= 128 THEN (low - 2147483647) - 1 ELSE low

\* the length field N that readStringEntry reads at offset: 0 when the four
\* bytes are not all in the buffer
LengthAt(b, offset) ==
    IF offset >= 0 /\ offset + 4 <= Len(b) THEN SignedLE(b, offset) ELSE 0

\* bytes b[from] .. b[to - 1] of a buffer, nothing when to <= from
Bytes(b, from, to) == [j \in 1..(to - from) |-> b[from + j]]

\* C13 as stated: StringEntry returns as text exactly the N bytes
\* b[offset+4 .. offset+4+N-1], and N + 4 as the bytes read, also when N is
\* negative or larger than what is left of the buffer
C13_ExactlyNBytes ==
    out.fn = "StringEntry" =>
        LET N == LengthAt(bits, out.offset)
        IN  /\ out.se.bytesRead = N + 4
            /\ Len(out.se.string) = N
            /\ out.offset + 4 + N <= Len(bits)
            /\ out.se.string = Bytes(bits, out.offset + 4, out.offset + 4 + N)

\* C13 amended: StringEntry returns N + 4 as the bytes read, and as text
\* the N bytes after the length field when they all lie in the buffer; the
\* bytes from offset+4 to the end of the buffer when N is larger than what
\* is left; nothing when N is negative and offset+4+N is not; and when
\* offset+4+N is negative, the bytes from offset+4 up to |offset+4+N| bytes
\* before the end of the buffer
C13_BytesInsideBuffer ==
    out.fn = "StringEntry" =>
        LET N == LengthAt(bits, out.offset)
            start == out.offset + 4
            stop == out.offset + 4 + N
            text == out.se.string
        IN  /\ out.se.bytesRead = N + 4
            /\ out.se.length = N
            /\ (N >= 0 /\ stop <= Len(bits))
                  => Len(text) = N /\ text = Bytes(bits, start, stop)
            /\ (N >= 0 /\ stop > Len(bits))
                  => text = Bytes(bits, start, Len(bits))
            /\ (N < 0 /\ stop >= 0) => text = <<>>
            /\ (N < 0 /\ stop < 0)
                  => text = Bytes(bits, Min(start, Len(bits)),
                                  Max(Len(bits) + stop, 0))

\* C13 witness: the length field holds -6, and the text returned is the
\* byte before the last one, with -2 bytes read
C13_Witness ==
    /\ out.fn = "StringEntry"
    /\ bits = <<TagString>> \o LE32(-6) \o <<97, 98>>
    /\ out.offset = 1
    /\ out.se.string = <<97>>
    /\ out.se.bytesRead = -2

\* C14: Int32 returns the signed 32-bit little-endian value of the four
\* bytes at offset when they all lie in the buffer and 0 otherwise, and an
\* i entry whose payload is cut to 1-3 bytes decodes to IntegerMP(0), the
\* decode returning with no error in the log
C14_Int32PastEndIsZero ==
    /\ out.fn = "Int32" =>
          out.int = IF out.offset >= 0 /\ out.offset + 4 <= Len(bits)
                    THEN SignedLE(bits, out.offset)
                    ELSE 0
    /\ (/\ Ended
        /\ out.fn = "Any"
        /\ out.maxParts >= 1
        /\ Len(bits) - out.offset \in 2..4
        /\ bits[out.offset + 1] = 105)
         => /\ result.kind = "return"
            /\ Len(result.parts) = 1
            /\ result.parts[1].type = "IntegerMP"
            /\ result.parts[1].n = 0
            /\ \A j \in 1..Len(Messages) : Messages[j][1] # "E"

\* C14 witness: an i entry with three of its four payload bytes has been
\* decoded to IntegerMP(0)
C14_Witness ==
    /\ Ended
    /\ out.fn = "Any"
    /\ out.offset = 0
    /\ out.maxParts = Infinity
    /\ bits = <<105, 254, 255, 255>>
    /\ result.kind = "return"
    /\ Len(result.parts) = 1
    /\ result.parts[1].n = 0
    /\ result.bytesRead = 5

\* an iteration of a payload state that appends a value and goes on
PayloadStep ==
    /\ pc = "Decode"
    /\ Len(stack) > 0
    /\ LoopCond(Top)
    /\ Top.state # 0
    /\ pc' = "Decode"
    /\ Len(stack') = Len(stack)

\* C15 as stated: every iteration of a payload state strictly advances
\* the offset (which is why the loop would end), also for I, R, s and S
\* entries whose length field is negative
C15_PayloadAdvances ==
    [][PayloadStep => Top'.offset > Top.offset]_vars

\* an activation returns to its caller, and not by a throw
ReturnsNormally ==
    /\ pc = "Decode"
    /\ Len(stack) > 0
    /\ Len(stack') < Len(stack)
    /\ result'.kind # "throw"

\* C16 as stated: a call never returns while in a payload state, so every
\* type signature it consumed was followed by one value; a buffer that is
\* one type signature and nothing else gives one value
C16_ReturnsInReady ==
    [][/\ ReturnsNormally => Top.state = 0
       /\ (/\ Ended'
           /\ Len(bits') = 1
           /\ bits'[1] \in {105, 73, 114, 82, 115, 83, 102, 101})
            => result'.kind = "return" /\ Len(result'.parts) = 1]_vars

\* C17 as stated: the bytes a call reports as read are at least 0 and at
\* most those from its start offset to the end of the buffer, and while it
\* runs its offset never decreases and never exceeds the buffer's length
C17_ConsumedWithinBuffer ==
    [][/\ ReturnsNormally =>
            /\ Top.offset - Top.originalOffset >= 0
            /\ Top.offset - Top.originalOffset
                  <= Len(bits) - Top.originalOffset
       /\ (pc = "Decode" /\ pc' = "Decode" /\ Len(stack') = Len(stack))
            => /\ Top'.offset >= Top.offset
               /\ Top'.offset <= Len(bits)]_vars

\* the innermost activation is about to decode a real matrix
AtMatrix ==
    /\ pc = "Decode"
    /\ Len(stack) > 0
    /\ Top.offset < Len(bits)
    /\ Len(Top.parts) < Top.maxParts
    /\ Top.state = 8

\* the dimension count and the sizes that follow the e at Top.offset - 1,
\* each 0 when its four bytes are not all in the buffer
CountAtTop == LengthAt(bits, Top.offset)
SizesAtTop == [d \in 1..CountAtTop |-> LengthAt(bits, Top.offset + 4 * d)]

\* C18: the step that decodes a real matrix of n >= 1 dimensions with sizes
\* that are not negative moves the offset from the byte after the e by
\* 4 + 4n + 8 * (the product of the sizes) and appends one value; for
\* n <= 0 it moves the offset by the 4 bytes of the count and appends a
\* List with no parts
C18_MatrixBytes ==
    [][AtMatrix =>
          /\ pc' = "Decode"
          /\ Len(stack') = Len(stack)
          /\ Len(Top'.parts) = Len(Top.parts) + 1
          /\ Top'.state = 0
          /\ (CountAtTop >= 1 /\ \A d \in 1..CountAtTop : SizesAtTop[d] >= 0)
                => Top'.offset = Top.offset + 4 + 4 * CountAtTop
                                   + 8 * Stride(SizesAtTop, 0)
          /\ CountAtTop <= 0
                => /\ Top'.offset = Top.offset + 4
                   /\ Appended.type = "Expression"
                   /\ Appended.head.name = <<76, 105, 115, 116>>
                   /\ Appended.parts = <<>>]_vars

\* C18 witness: a matrix of size 2 took 1 + 4 + 4 + 16 bytes, and the i
\* entry after it was decoded from where the matrix ended
C18_Witness ==
    /\ Ended
    /\ bits = MatrixEntry(<<2>>, 2) \o Encode(Int1)
    /\ result.kind = "return"
    /\ Len(result.parts) = 2
    /\ result.parts[2].type = "IntegerMP"
    /\ result.bytesRead = 30

\* an unknown byte is about to be read in READY
AtUnknownByte ==
    /\ pc = "Decode"
    /\ Len(stack) > 0
    /\ Top.state = 0
    /\ Top.offset < Len(bits)
    /\ Len(Top.parts) < Top.maxParts
    /\ (Top.offset < 0 \/ bits[Top.offset + 1] \notin
          {105, 73, 114, 82, 115, 83, 102, 101})

\* the header of the inflated buffer is about to be found wrong
AtWrongHeader == pc = "Decompress" /\ HeaderOf(inflated) # <<33, 98, 111, 82>>

\* the log has one record more, of the given kind, after those it had
OneMore(kind) ==
    /\ Len(Messages') = Len(Messages) + 1
    /\ SubSeq(Messages', 1, Len(Messages)) = Messages
    /\ Messages'[Len(Messages')][1] = kind

\* C19: over any sequence of invocations a step leaves the log as it is or
\* appends one record to it: one "W" for an unknown byte and for a wrong
\* header, one "E" for a Mma.Fail, which then aborts, and nothing in any
\* other step; and a decode of the input of the first invocation ends as
\* that one did, whatever the log holds by then
C19_LogAppendOnly ==
    [][/\ AtUnknownByte => OneMore("W")
       /\ AtWrongHeader => OneMore("W")
       /\ Fails => OneMore("E") /\ pc' = "idle" /\ stack' = <<>>
       /\ ~(AtUnknownByte \/ AtWrongHeader \/ Fails) => Messages' = Messages
       /\ (Ended' /\ first' # <<>> /\ inflated' = first'[1].inflated)
            => /\ SameValues(result', first'[1].result)
               /\ result'.bytesRead = first'[1].result.bytesRead]_vars

\* C19 witness: three invocations have left an error and then two warnings,
\* one for a wrong header and one for an unknown byte, in the log
C19_Witness ==
    /\ Ended
    /\ calls = 3
    /\ Len(Messages) = 3
    /\ Messages[1][1] = "E"
    /\ Messages[2][1] = "W"
    /\ Messages[3][1] = "W"
    /\ DecodeWarnings(Messages) = 1

====
